---- MODULE Spec2Model ----
(***************************************************************************)
(* A model of app.py: the content loaders (travel stops, blog posts,       *)
(* scrapbook entries) and the session gate of the scrapbook route.         *)
(*                                                                         *)
(* Python strings are sequences of one-character strings, so that strip,   *)
(* replace, split, lower and strptime are computed character by character. *)
(* A Python value that may be missing is a tagged tuple:                   *)
(*   <<"absent">>   the key is not in the dict / form / environment        *)
(*   <<"null">>     None (a JSON null)                                     *)
(*   <<"bool", b>>  a boolean                                              *)
(*   <<"str", s>>   a string s                                             *)
(*   <<"list", l>>  a list l                                               *)
(***************************************************************************)
EXTENDS Integers, Sequences, FiniteSets, TLC

VARIABLES
    session,             \* flask.session of the one client: the flag and the flashes
    SCRAPBOOK_PASSWORD,  \* the environment variable read by login
    stops_json,          \* content/travel/stops.json, parsed
    blog_dir,            \* content/blog/*.md: file name -> front matter
    entries_json,        \* content/scrapbook/entries.json, parsed
    req,                 \* the request being answered
    resp,                \* the response to it
    origin               \* the login the guard started: its ?next= and how far it got

vars == <<session, SCRAPBOOK_PASSWORD, stops_json, blog_dir, entries_json, req, resp, origin>>

\* ---------------------------------------------------------------- bounds

MaxStops == 2

MaxDocs == 2

MaxFlashes == 2

\* ---------------------------------------------------------------- values

Absent == <<"absent">>

Null == <<"null">>

Bool(b) == <<"bool", b>>

Str(s) == <<"str", s>>

\* Python truthiness of a value: None, False and "" are falsy.
Truthy(v) ==
    CASE v[1] = "absent" -> FALSE
      [] v[1] = "null" -> FALSE
      [] v[1] = "bool" -> v[2]
      [] v[1] = "str" -> v[2] /= <<>>
      [] v[1] = "list" -> v[2] /= <<>>

\* d.get(key, default): the default only when the key is missing.
Get(v, default) == IF v = Absent THEN default ELSE v

\* (a or b)
Or(a, b) == IF Truthy(a) THEN a ELSE b

\* str(v)
py_str(v) ==
    CASE v[1] = "str" -> v[2]
      [] v[1] = "null" -> <<"N", "o", "n", "e">>
      [] v[1] = "bool" -> IF v[2] THEN <<"T", "r", "u", "e">> ELSE <<"F", "a", "l", "s", "e">>

\* ---------------------------------------------------------------- characters

\* The characters of the model in code point order.
Alphabet ==
    <<"\t", " ", "-", ".", "/",
      "0", "1", "2", "3", "4", "5", "6", "7", "8", "9",
      "A", "B", "C", "D", "E", "F", "G", "H", "I", "J", "K", "L", "M",
      "N", "O", "P", "Q", "R", "S", "T", "U", "V", "W", "X", "Y", "Z",
      "a", "b", "c", "d", "e", "f", "g", "h", "i", "j", "k", "l", "m",
      "n", "o", "p", "q", "r", "s", "t", "u", "v", "w", "x", "y", "z">>

Ord(c) == CHOOSE i \in 1..Len(Alphabet) : Alphabet[i] = c

Whitespace == {"\t", " "}

Digits == {"0", "1", "2", "3", "4", "5", "6", "7", "8", "9"}

DigitVal(c) == Ord(c) - Ord("0")

IsUpper(c) == Ord(c) >= Ord("A") /\ Ord(c) <= Ord("Z")

\* str.lower()
lower(s) == [i \in 1..Len(s) |-> IF IsUpper(s[i]) THEN Alphabet[Ord(s[i]) + Ord("a") - Ord("A")] ELSE s[i]]

\* str.replace(old, new) for a one-character old
replace_char(s, old, new) == [i \in 1..Len(s) |-> IF s[i] = old THEN new ELSE s[i]]

\* str.strip(): drop the whitespace at both ends.
strip(s) ==
    LET keep == {i \in 1..Len(s) : s[i] \notin Whitespace}
    IN  IF keep = {} THEN <<>>
        ELSE LET lo == CHOOSE i \in keep : \A j \in keep : i <= j
                 hi == CHOOSE i \in keep : \A j \in keep : j <= i
             IN  SubSeq(s, lo, hi)

\* a < b for strings, by code points
StrLess(a, b) ==
    \E k \in 1..(Len(b)) :
        /\ \A i \in 1..(k - 1) : i <= Len(a) /\ a[i] = b[i]
        /\ k - 1 <= Len(a)
        /\ (k > Len(a) \/ Ord(a[k]) < Ord(b[k]))

\* ---------------------------------------------------------------- dates

\* datetime.min, as a proleptic Gregorian ordinal (0001-01-01)
DatetimeMin == 1

IsLeap(y) == (y % 4 = 0) /\ ((y % 100 /= 0) \/ (y % 400 = 0))

DaysInMonth(y, m) ==
    IF m = 2 THEN (IF IsLeap(y) THEN 29 ELSE 28)
    ELSE IF m \in {4, 6, 9, 11} THEN 30 ELSE 31

RECURSIVE DaysBeforeMonth(_, _)
DaysBeforeMonth(y, m) == IF m = 1 THEN 0 ELSE DaysBeforeMonth(y, m - 1) + DaysInMonth(y, m - 1)

\* date.toordinal()
Ordinal(y, m, d) ==
    365 * (y - 1) + ((y - 1) \div 4) - ((y - 1) \div 100) + ((y - 1) \div 400)
        + DaysBeforeMonth(y, m) + d

\* %m of strptime: 1[0-2] | 0[1-9] | [1-9]
MonthToken(t) ==
    \/ Len(t) = 2 /\ t[1] = "1" /\ t[2] \in {"0", "1", "2"}
    \/ Len(t) = 2 /\ t[1] = "0" /\ t[2] \in Digits \ {"0"}
    \/ Len(t) = 1 /\ t[1] \in Digits \ {"0"}

\* %d of strptime: 3[01] | [12]\d | 0[1-9] | [1-9] | " "[1-9]
DayToken(t) ==
    \/ Len(t) = 2 /\ t[1] = "3" /\ t[2] \in {"0", "1"}
    \/ Len(t) = 2 /\ t[1] \in {"1", "2"} /\ t[2] \in Digits
    \/ Len(t) = 2 /\ t[1] \in {"0", " "} /\ t[2] \in Digits \ {"0"}
    \/ Len(t) = 1 /\ t[1] \in Digits \ {"0"}

TokenVal(t) ==
    IF Len(t) = 1 THEN DigitVal(t[1])
    ELSE (IF t[1] = " " THEN 0 ELSE 10 * DigitVal(t[1])) + DigitVal(t[2])

\* The places where "%Y-%m-%d" can end its month in s: the whole string has to match.
YmdSplits(s) ==
    {k \in 6..(Len(s) - 2) :
        /\ \A i \in 1..4 : s[i] \in Digits
        /\ s[5] = "-"
        /\ MonthToken(SubSeq(s, 6, k))
        /\ s[k + 1] = "-"
        /\ DayToken(SubSeq(s, k + 2, Len(s)))}

\* datetime.strptime(s, "%Y-%m-%d"): <<"ok", ordinal>>, or <<"err">> for ValueError.
strptime_ymd(s) ==
    IF YmdSplits(s) = {} THEN <<"err">>
    ELSE LET k == CHOOSE k \in YmdSplits(s) : TRUE
             y == 1000 * DigitVal(s[1]) + 100 * DigitVal(s[2]) + 10 * DigitVal(s[3]) + DigitVal(s[4])
             m == TokenVal(SubSeq(s, 6, k))
             d == TokenVal(SubSeq(s, k + 2, Len(s)))
         IN  IF y >= 1 /\ d <= DaysInMonth(y, m) THEN <<"ok", Ordinal(y, m, d)>> ELSE <<"err">>

\* parse_date_ymd: the parsed date, datetime.min on any exception (a value that is
\* no string makes strptime raise TypeError).
parse_date_ymd(v) ==
    IF v[1] = "str" /\ strptime_ymd(v[2])[1] = "ok" THEN strptime_ymd(v[2])[2] ELSE DatetimeMin

\* days_between: the inclusive day count, 0 if invalid or if the end precedes the start.
days_between(start_ymd, end_ymd) ==
    LET s == strptime_ymd(start_ymd)
        e == strptime_ymd(end_ymd)
    IN  IF s[1] = "ok" /\ e[1] = "ok"
        THEN (IF e[2] >= s[2] THEN (e[2] - s[2]) + 1 ELSE 0)
        ELSE 0

\* ---------------------------------------------------------------- sorting

\* sorted_reverse without reverse=True
sorted_ascending(items, keys) ==
    LET n == Len(items)
        pos(i) == Cardinality({j \in 1..n : keys[j] < keys[i]})
                    + Cardinality({j \in 1..(i - 1) : keys[j] = keys[i]}) + 1
    IN  [p \in 1..n |-> items[CHOOSE i \in 1..n : pos(i) = p]]

\* sorted(items, key=..., reverse=True) with keys[i] the key of items[i]: descending
\* and stable, so items with equal keys keep their order.
sorted_reverse(items, keys) ==
    LET n == Len(items)
        pos(i) == Cardinality({j \in 1..n : keys[j] > keys[i]})
                    + Cardinality({j \in 1..(i - 1) : keys[j] = keys[i]}) + 1
    IN  [p \in 1..n |-> items[CHOOSE i \in 1..n : pos(i) = p]]

\* ---------------------------------------------------------------- slugs

\* s.rsplit("/", 1)[-1]: what follows the last "/"
rsplit_last(s) ==
    LET at == {i \in 1..Len(s) : s[i] = "/"}
    IN  IF at = {} THEN s
        ELSE SubSeq(s, (CHOOSE i \in at : \A j \in at : j <= i) + 1, Len(s))

\* s.replace(".md", ""): every occurrence, left to right
RECURSIVE replace_md(_)
replace_md(s) ==
    IF Len(s) < 3 THEN s
    ELSE IF SubSeq(s, 1, 3) = <<".", "m", "d">> THEN replace_md(SubSeq(s, 4, Len(s)))
    ELSE <<s[1]>> \o replace_md(Tail(s))

\* s.split("-", maxsplit)
RECURSIVE split_hyphen(_, _)
split_hyphen(s, maxsplit) ==
    LET at == {i \in 1..Len(s) : s[i] = "-"}
    IN  IF maxsplit = 0 \/ at = {} THEN <<s>>
        ELSE LET i == CHOOSE i \in at : \A j \in at : i <= j
             IN  <<SubSeq(s, 1, i - 1)>> \o split_hyphen(SubSeq(s, i + 1, Len(s)), maxsplit - 1)

slugify(filename) ==
    LET name == rsplit_last(filename)
        stem == replace_md(name)
        parts == split_hyphen(stem, 3)
    IN  IF Len(parts) >= 4 THEN parts[Len(parts)] ELSE stem

\* Path.stem of a file name: the name without its last suffix
path_stem(name) ==
    LET at == {i \in 2..Len(name) : name[i] = "."}
    IN  IF at = {} THEN name
        ELSE SubSeq(name, 1, (CHOOSE i \in at : \A j \in at : j <= i) - 1)

\* ---------------------------------------------------------------- travel

\* st.get(key) of a key that may be missing: None when it is
get_none(v) == IF v = Absent THEN Null ELSE v

\* (st.get("type") or "visited").strip()
stop_type(st) == strip(Or(st.type, Str(<<"v", "i", "s", "i", "t", "e", "d">>))[2])

normalize_stop(st) ==
    LET start == py_str(Get(st.start_date, Str(<<>>)))
        end == py_str(Get(st.end_date, Str(<<>>)))
        raw_id == strip(Or(st.id, Str(<<>>))[2])
        place == strip(Or(st.place, Str(<<>>))[2])
        fallback_id == replace_char(lower(place), " ", "-") \o <<"-">> \o start
        stop_id == IF raw_id /= <<>> THEN raw_id ELSE fallback_id
    IN  [id |-> stop_id,
         place |-> place,
         country |-> strip(Or(st.country, Str(<<>>))[2]),
         lat |-> get_none(st.lat),
         lng |-> get_none(st.lng),
         start_date |-> start,
         end_date |-> end,
         days |-> days_between(start, end),
         type |-> stop_type(st),
         notes_md |-> Or(st.notes_md, Str(<<>>))[2]]

\* SubSeq(f, 1, n) is f, held as a tuple.
load_travel_stops(stops) ==
    LET normalized == SubSeq([i \in 1..Len(stops) |-> normalize_stop(stops[i])], 1, Len(stops))
    IN  sorted_reverse(normalized,
                       [i \in 1..Len(stops) |-> parse_date_ymd(Str(normalized[i].start_date))])

\* ---------------------------------------------------------------- blog

\* is_draft as `meta.get("draft") is True`
is_draft_strict(meta) == meta.draft = Bool(TRUE)

\* bool(meta.get("draft", False))
is_draft(meta) == Truthy(Get(meta.draft, Bool(FALSE)))

\* sorted(blog_dir.glob("*.md"), reverse=True): the file names, descending
glob_sorted_reverse(dir) ==
    LET names == DOMAIN dir
        pos(f) == Cardinality({g \in names : StrLess(f, g)}) + 1
    IN  [p \in 1..Cardinality(names) |-> CHOOSE f \in names : pos(f) = p]

\* posts.append({...}) for one file that is no draft
blog_record(name, meta) ==
    LET date_str == py_str(Or(meta.date, Str(<<>>)))
    IN  [title |-> Or(meta.title, Str(path_stem(name)))[2],
         date |-> date_str,
         date_sort |-> parse_date_ymd(Str(date_str)),
         tags |-> IF Truthy(meta.tags) THEN meta.tags[2] ELSE <<>>,
         excerpt |-> Or(meta.excerpt, Str(<<>>))[2],
         slug |-> Or(meta.slug, Str(slugify(name)))[2],
         content_md |-> meta.content]

load_blog_posts(dir) ==
    LET files == glob_sorted_reverse(dir)
        published == SelectSeq(files, LAMBDA f : ~is_draft(dir[f]))
        posts == SubSeq([i \in 1..Len(published) |-> blog_record(published[i], dir[published[i]])],
                        1, Len(published))
    IN  sorted_reverse(posts, [i \in 1..Len(posts) |-> posts[i].date_sort])

\* next((x for x in items if x["slug"] == slug), None): <<>> for None
first_by_slug(items, slug) ==
    LET hits == {i \in 1..Len(items) : items[i].slug = slug}
    IN  IF hits = {} THEN <<>> ELSE <<items[CHOOSE i \in hits : \A j \in hits : i <= j]>>

\* ---------------------------------------------------------------- scrapbook entries

\* sorted(entries, key=lambda e: parse_date_ymd(e.get("date", "")), reverse=True)
sort_entries(entries) ==
    sorted_reverse(entries, [i \in 1..Len(entries) |-> parse_date_ymd(Get(entries[i].date, Str(<<>>)))])

\* ---------------------------------------------------------------- responses

url_for_home == <<"/">>

url_for_scrapbook == <<"/", "s", "c", "r", "a", "p", "b", "o", "o", "k">>

\* url_for("login", next=path): /login?next=<path>
url_for_login(path) == [path |-> <<"/", "l", "o", "g", "i", "n">>, next |-> Str(path)]

\* a URL with no query string
url(path) == [path |-> path, next |-> Absent]

NoLocation == [path |-> <<>>, next |-> Absent]

redirect(location, code) ==
    [status |-> code, template |-> "", location |-> location,
     shown |-> <<>>, data |-> <<>>, cache_control |-> ""]

\* flash(message, category): appended to the session's queue
flash(sess, message, category) == [sess EXCEPT !.flashes = Append(@, <<category, message>>)]

\* render_template(template, **data), answered with `status`. The templates are not
\* part of app.py: a template that calls get_flashed_messages() shows the queued
\* flashes and empties the queue (drain), another one leaves the queue alone.
render_template(sess, template, data, status, drain) ==
    [session |-> [sess EXCEPT !.flashes = IF drain THEN <<>> ELSE @],
     resp |-> [status |-> status, template |-> template, location |-> NoLocation,
               shown |-> IF drain THEN sess.flashes ELSE <<>>,
               data |-> data, cache_control |-> ""]]

\* @app.after_request
add_no_store(response) == [response EXCEPT !.cache_control = "no-store"]

\* ---------------------------------------------------------------- the gate

\* session.get("scrapbook_authed"), as a truth value
authed(sess) == Truthy(sess.scrapbook_authed)

\* login_required that lets every session through
login_required_open(sess, path, outcome) == outcome

\* the decorator: `outcome` is what the wrapped view would answer
login_required(sess, path, outcome) ==
    IF ~authed(sess)
    THEN [session |-> sess, resp |-> redirect(url_for_login(path), 302)]
    ELSE outcome

\* password_ok without `expected and`
password_ok_unset(password, expected) == password = expected

\* expected and password == expected
password_ok(password, expected) == expected /= <<>> /\ password = expected

\* login_success that ignores the form's next
login_success_fixed(sess, form) ==
    [session |-> [sess EXCEPT !.scrapbook_authed = Bool(TRUE)],
     resp |-> redirect(url(url_for_home), 303)]

\* the redirect after a correct password: request.form.get("next") or url_for("scrapbook")
login_success(sess, form) ==
    [session |-> [sess EXCEPT !.scrapbook_authed = Bool(TRUE)],
     resp |-> redirect(url(Or(form.next, Str(url_for_scrapbook))[2]), 303)]

\* login_failure without the flash
login_failure_silent(sess, drain) == render_template(sess, "login.html", <<>>, 200, drain)

\* the answer to a wrong password: the flash, then the login page again
login_failure(sess, drain) ==
    render_template(flash(sess, "Incorrect password.", "danger"), "login.html", <<>>, 200, drain)

login(sess, method, form, env_password, drain) ==
    IF authed(sess)
    THEN [session |-> sess, resp |-> redirect(url(url_for_scrapbook), 303)]
    ELSE IF method = "POST"
    THEN LET password == Get(form.password, Str(<<>>))[2]
             expected == Get(env_password, Str(<<>>))[2]
         IN  IF password_ok(password, expected)
             THEN login_success(sess, form)
             ELSE login_failure(sess, drain)
    ELSE render_template(sess, "login.html", <<>>, 200, drain)

\* logout with del session["scrapbook_authed"]: a KeyError when the key is not there
logout_del(sess) ==
    IF authed(sess)
    THEN [session |-> [sess EXCEPT !.scrapbook_authed = Absent],
          resp |-> redirect(url(url_for_home), 302)]
    ELSE [session |-> sess, resp |-> redirect(NoLocation, 500)]

\* session.pop("scrapbook_authed", None), then the redirect home
logout(sess) ==
    [session |-> [sess EXCEPT !.scrapbook_authed = Absent],
     resp |-> redirect(url(url_for_home), 302)]

\* scrapbook_view whose POST drops the flag
scrapbook_view_clearing(sess, method, entries, drain) ==
    IF method = "POST"
    THEN [session |-> [sess EXCEPT !.scrapbook_authed = Absent],
          resp |-> redirect(url(url_for_scrapbook), 303)]
    ELSE render_template(sess, "scrapbook.html", sort_entries(entries), 200, drain)

\* the scrapbook view, below the decorator
scrapbook_view(sess, method, entries, drain) ==
    IF method = "POST"
    THEN [session |-> sess, resp |-> redirect(url(url_for_scrapbook), 303)]
    ELSE render_template(sess, "scrapbook.html", sort_entries(entries), 200, drain)

scrapbook(sess, method, path, entries, drain) ==
    login_required(sess, path, scrapbook_view(sess, method, entries, drain))

\* ---------------------------------------------------------------- the public pages

home(sess, drain) == render_template(sess, "index.html", <<>>, 200, drain)

blog(sess, dir, drain) == render_template(sess, "blog.html", load_blog_posts(dir), 200, drain)

blog_post(sess, dir, slug, drain) ==
    LET post == first_by_slug(load_blog_posts(dir), slug)
    IN  IF post = <<>>
        THEN render_template(sess, "404.html", <<>>, 404, drain)
        ELSE render_template(sess, "blog_post.html", post, 200, drain)

travel(sess, stops, drain) ==
    render_template(sess, "travel.html", load_travel_stops(stops), 200, drain)

\* ---------------------------------------------------------------- inputs

D_2024_03_10 == <<"2", "0", "2", "4", "-", "0", "3", "-", "1", "0">>

D_2023_05_01 == <<"2", "0", "2", "3", "-", "0", "5", "-", "0", "1">>

\* the date that parses to datetime.min
D_0001_01_01 == <<"0", "0", "0", "1", "-", "0", "1", "-", "0", "1">>

D_bad == <<"b", "a", "d">>

\* the start_date values of the stops: two dates, the earliest date there is, a
\* malformed one and a missing one
StartDates == {Str(D_2024_03_10), Str(D_2023_05_01), Str(D_0001_01_01), Str(D_bad), Absent}

\* the type values of the stops: missing, empty, blank and padded
StopTypes == {Absent, Str(<<>>), Str(<<" ", " ">>), Str(<<" ", "f", "l", "o", "w", "n", " ">>)}

raw_stop(id, start_date, type) ==
    [id |-> id, place |-> Str(<<"R", "i", "o", " ", "d", "e", " ", "J", "a", "n", "e", "i", "r", "o">>), country |-> Absent,
     lat |-> Absent, lng |-> Absent,
     start_date |-> start_date, end_date |-> Str(D_2024_03_10),
     type |-> type, notes_md |-> Absent]

RawStops == {raw_stop(Absent, d, t) : d \in StartDates, t \in StopTypes}

\* the contents stops.json can have: lists of at most MaxStops stops
StopLists == UNION {[1..n -> RawStops] : n \in 0..MaxStops}

F_trip == <<"2", "0", "2", "4", "-", "0", "3", "-", "1", "0", "-", "m", "y", "-", "t", "r", "i", "p", ".", "m", "d">>

F_date == <<"2", "0", "2", "4", "-", "0", "3", "-", "1", "0", ".", "m", "d">>

\* a file name with ".md" inside its stem
F_inner == <<"a", ".", "m", "d", "-", "b", ".", "m", "d">>

Filenames == {F_trip, F_date, F_inner}

S_my_trip == <<"m", "y", "-", "t", "r", "i", "p">>

S_a_b == <<"a", "-", "b">>

S_missing == <<"n", "o", "p", "e">>

\* the slugs asked of /blog/<slug>
RequestSlugs == {S_my_trip, S_a_b, S_missing}

\* the front matter a post can have; "no" is a string, and so a truthy draft
DraftValues == {Absent, Bool(TRUE), Str(<<"n", "o">>)}

blog_doc(draft, slug, date) ==
    [draft |-> draft, title |-> Absent, date |-> date, tags |-> Absent,
     excerpt |-> Absent, slug |-> slug, content |-> <<>>]

BlogDocs == {blog_doc(dr, sl, da) : dr \in DraftValues, sl \in {Absent, Str(S_my_trip)},
                                    da \in {Absent, Str(D_2024_03_10)}}

\* the contents content/blog can have: at most MaxDocs files
BlogDirs == UNION {[names -> BlogDocs] : names \in {n \in SUBSET Filenames : Cardinality(n) <= MaxDocs}}

PW_secret == <<"s", "3", "c", "r", "e", "t">>

\* the same password in another case
PW_Secret == <<"S", "3", "c", "r", "e", "t">>

PW_wrong == <<"g", "u", "e", "s", "s">>

\* SCRAPBOOK_PASSWORD: unset, set to the empty string, set
EnvPasswords == {Absent, Str(<<>>), Str(PW_secret)}

P_elsewhere == <<"/", "e", "l", "s", "e", "w", "h", "e", "r", "e">>

\* request.form of a POST to /login
Forms == [password : {Absent, Str(<<>>), Str(PW_secret), Str(PW_Secret), Str(PW_wrong)},
          next : {Absent, Str(<<>>), Str(url_for_scrapbook), Str(P_elsewhere)}]

NoForm == [password |-> Absent, next |-> Absent]

\* request.args of a GET of /login
Args == [next : {Absent, Str(url_for_scrapbook), Str(P_elsewhere)}]

NoArgs == [next |-> Absent]

SampleStops == <<raw_stop(Absent, Str(D_2023_05_01), Absent),
                 raw_stop(Str(<<" ", "r", "i", "o", " ">>), Str(D_2024_03_10), Null)>>

SampleBlog == (F_trip :> blog_doc(Absent, Absent, Str(D_2024_03_10))) @@ (F_date :> blog_doc(Bool(TRUE), Absent, Absent))

SampleEntries == <<[date |-> Str(D_bad)], [date |-> Str(D_2024_03_10)], [date |-> Null]>>

\* ---------------------------------------------------------------- requests

request(endpoint, method, form, args, slug) ==
    [endpoint |-> endpoint, method |-> method, form |-> form, args |-> args,
     slug |-> slug, was_authed |-> authed(session)]

NoRequest == [endpoint |-> "", method |-> "", form |-> NoForm, args |-> NoArgs,
              slug |-> <<>>, was_authed |-> FALSE]

NoResponse == redirect(NoLocation, 0)

\* What the template of a page can do with the flashes: showing an empty queue and
\* leaving it alone are the same.
DrainChoices == IF session.flashes = <<>> THEN {FALSE} ELSE BOOLEAN

\* One request answered: the handler's outcome, then after_request. The queue of
\* flashes is kept within MaxFlashes.
Answer(out, r, next_origin) ==
    /\ Len(out.session.flashes) <= MaxFlashes
    /\ session' = out.session
    /\ resp' = add_no_store(out.resp)
    /\ req' = r
    /\ origin' = next_origin
    /\ UNCHANGED <<SCRAPBOOK_PASSWORD, stops_json, blog_dir, entries_json>>

NoOrigin == [next |-> Absent, stage |-> ""]

\* The login the guard started: the client follows the redirect to the login page
\* (a GET with the guard's ?next=) and submits the form of that page, again after a
\* refusal. Any other request ends it.
login_origin(method, args) ==
    IF authed(session) THEN NoOrigin
    ELSE IF method = "GET" /\ origin.stage \in {"redirected", "login_page"} /\ args.next = origin.next
    THEN [origin EXCEPT !.stage = "login_page"]
    ELSE IF method = "POST" /\ origin.stage \in {"login_page", "submitted"}
    THEN [origin EXCEPT !.stage = "submitted"]
    ELSE NoOrigin

\* GET or POST /login
ReqLogin ==
    \E method \in {"GET", "POST"}, form \in Forms, args \in Args, drain \in DrainChoices :
        /\ method = "GET" => form = NoForm
        /\ method = "POST" => args = NoArgs
        /\ Answer(login(session, method, form, SCRAPBOOK_PASSWORD, drain),
                  request("login", method, form, args, <<>>),
                  login_origin(method, args))

\* GET /logout
ReqLogout ==
    Answer(logout(session), request("logout", "GET", NoForm, NoArgs, <<>>), NoOrigin)

\* GET or POST /scrapbook: request.path is the route's own path
ReqScrapbook ==
    \E method \in {"GET", "POST"}, drain \in DrainChoices :
        Answer(scrapbook(session, method, url_for_scrapbook, entries_json, drain),
               request("scrapbook", method, NoForm, NoArgs, <<>>),
               IF authed(session) THEN NoOrigin
               ELSE [next |-> Str(url_for_scrapbook), stage |-> "redirected"])

\* GET /
ReqHome ==
    \E drain \in DrainChoices :
        Answer(home(session, drain), request("home", "GET", NoForm, NoArgs, <<>>), NoOrigin)

\* GET /blog
ReqBlog ==
    \E drain \in DrainChoices :
        Answer(blog(session, blog_dir, drain), request("blog", "GET", NoForm, NoArgs, <<>>), NoOrigin)

\* GET /blog/<slug>
ReqBlogPost ==
    \E slug \in RequestSlugs, drain \in DrainChoices :
        Answer(blog_post(session, blog_dir, slug, drain),
               request("blog_post", "GET", NoForm, NoArgs, slug), NoOrigin)

\* GET /travel
ReqTravel ==
    \E drain \in DrainChoices :
        Answer(travel(session, stops_json, drain), request("travel", "GET", NoForm, NoArgs, <<>>), NoOrigin)

\* ---------------------------------------------------------------- specifications

\* a client with no session cookie yet
NewSession == [scrapbook_authed |-> Absent, flashes |-> <<>>]

\* The gate: every request of the application, against some content.
GateInit ==
    /\ session = NewSession
    /\ SCRAPBOOK_PASSWORD \in EnvPasswords
    /\ stops_json = SampleStops
    /\ blog_dir = SampleBlog
    /\ entries_json = SampleEntries
    /\ req = NoRequest
    /\ resp = NoResponse
    /\ origin = NoOrigin

GateNext ==
    \/ ReqLogin
    \/ ReqLogout
    \/ ReqScrapbook
    \/ ReqHome
    \/ ReqBlog
    \/ ReqBlogPost
    \/ ReqTravel

SpecGate == GateInit /\ [][GateNext]_vars

\* The blog: every content of content/blog within the bounds.
BlogInit ==
    /\ session = NewSession
    /\ SCRAPBOOK_PASSWORD = Absent
    /\ stops_json = <<>>
    /\ blog_dir \in BlogDirs
    /\ entries_json = <<>>
    /\ req = NoRequest
    /\ resp = NoResponse
    /\ origin = NoOrigin

BlogNext ==
    \/ ReqBlog
    \/ ReqBlogPost

SpecBlog == BlogInit /\ [][BlogNext]_vars

\* The travel log: every content of stops.json within the bounds.
TravelInit ==
    /\ session = NewSession
    /\ SCRAPBOOK_PASSWORD = Absent
    /\ stops_json \in StopLists
    /\ blog_dir = <<>>
    /\ entries_json = <<>>
    /\ req = NoRequest
    /\ resp = NoResponse
    /\ origin = NoOrigin

TravelNext == ReqTravel

SpecTravel == TravelInit /\ [][TravelNext]_vars

\* ---------------------------------------------------------------- the gate's properties

IsLoginPost == req.endpoint = "login" /\ req.method = "POST"

\* the password the last request submitted ("" when the field is missing) and the
\* configured one ("" when the variable is unset)
Submitted == IF req.form.password = Absent THEN <<>> ELSE req.form.password[2]

Expected == IF SCRAPBOOK_PASSWORD = Absent THEN <<>> ELSE SCRAPBOOK_PASSWORD[2]

IncorrectPassword == <<"danger", "Incorrect password.">>

\* C1: a scrapbook request is answered with the scrapbook page only if the session
\* was Authorized when it arrived; one that arrives while Anonymous is answered with
\* a redirect to /login?next=/scrapbook and with no content.
C1_ScrapbookGuarded ==
    /\ resp.template = "scrapbook.html" => req.endpoint = "scrapbook" /\ req.was_authed
    /\ (req.endpoint = "scrapbook" /\ ~req.was_authed) =>
          /\ resp.status = 302
          /\ resp.location = [path |-> <<"/", "l", "o", "g", "i", "n">>, next |-> Str(url_for_scrapbook)]
          /\ resp.template = ""
          /\ resp.data = <<>>

\* an Anonymous scrapbook request, after a failed login, answered by the redirect
C1_Witness ==
    /\ req.endpoint = "scrapbook"
    /\ ~req.was_authed
    /\ session.flashes /= <<>>
    /\ resp.status = 302

\* C2: with the expected secret empty or unset, the session is never Authorized.
C2_FailClosed == Expected = <<>> => ~authed(session)

\* the empty password posted against an empty expected secret
C2_Witness ==
    /\ SCRAPBOOK_PASSWORD = Str(<<>>)
    /\ IsLoginPost
    /\ req.form.password = Str(<<>>)
    /\ ~authed(session)

\* C3: a submission made while Anonymous with a missing or different password leaves
\* the session Anonymous and queues "Incorrect password.": the message is the last
\* of the flashes, shown by this page or waiting for the next one.
C3_IncorrectPassword ==
    (IsLoginPost /\ ~req.was_authed /\ (req.form.password = Absent \/ Submitted /= Expected)) =>
        /\ ~authed(session)
        /\ resp.shown \o session.flashes /= <<>>
        /\ (resp.shown \o session.flashes)[Len(resp.shown \o session.flashes)] = IncorrectPassword

\* the configured password in another case, refused
C3_Witness ==
    /\ IsLoginPost
    /\ ~req.was_authed
    /\ SCRAPBOOK_PASSWORD = Str(PW_secret)
    /\ req.form.password = Str(PW_Secret)
    /\ session.flashes = <<IncorrectPassword>>

\* C4: a correct submission made while Anonymous authorizes the session and redirects
\* to the form's next, or to /scrapbook without one; when the login was started by
\* the guard and the form carries the guard's next (or none), that is the path that
\* was asked for.
C4_LoginRedirect ==
    (IsLoginPost /\ ~req.was_authed /\ Expected /= <<>> /\ Submitted = Expected) =>
        /\ authed(session)
        /\ resp.status = 303
        /\ resp.location.next = Absent
        /\ resp.location.path = IF req.form.next \in {Absent, Str(<<>>)}
                                THEN url_for_scrapbook ELSE req.form.next[2]
        /\ (origin.stage = "submitted" /\ req.form.next \in {origin.next, Absent}) =>
              resp.location.path = origin.next[2]

\* the guard's redirect followed to the login page, then the correct password
C4_Witness ==
    /\ IsLoginPost
    /\ ~req.was_authed
    /\ authed(session)
    /\ origin = [next |-> Str(url_for_scrapbook), stage |-> "submitted"]
    /\ req.form.next = origin.next
    /\ resp.location.path = url_for_scrapbook

\* C5: a logout succeeds from either state and leaves the session Anonymous, and a
\* logout that follows a logout changes nothing in the session.
C5_LogoutIdempotent ==
    [][req'.endpoint = "logout" =>
          /\ ~authed(session')
          /\ resp'.status = 302
          /\ resp'.location = [path |-> url_for_home, next |-> Absent]
          /\ (req.endpoint = "logout" => session' = session)]_vars

\* a logout of an Authorized session
C5_Witness ==
    /\ req.endpoint = "logout"
    /\ req.was_authed
    /\ ~authed(session)

\* C10: the flag is cleared only by a logout and set only by a correct submission.
C10_FlagFrame ==
    [][/\ (authed(session) /\ ~authed(session')) => req'.endpoint = "logout"
       /\ (~authed(session) /\ authed(session')) =>
             /\ req'.endpoint = "login"
             /\ req'.method = "POST"
             /\ req'.form.password = SCRAPBOOK_PASSWORD
             /\ SCRAPBOOK_PASSWORD \notin {Absent, Str(<<>>)}]_vars

\* an Authorized session that posted a wrong password to /login and is still Authorized
C10_Witness ==
    /\ IsLoginPost
    /\ req.was_authed
    /\ req.form.password = Str(PW_wrong)
    /\ authed(session)

\* ---------------------------------------------------------------- the blog's properties

\* a document whose front matter marks it as a draft: a draft that is truthy
DraftMarked(doc) == doc.draft \notin {Absent, Null, Bool(FALSE), Str(<<>>)}

Published == {f \in DOMAIN blog_dir : ~DraftMarked(blog_dir[f])}

HasMetaSlug(doc) == doc.slug \notin {Absent, Null, Str(<<>>)}

\* the slug a file is served under
ServedSlug(f) == IF HasMetaSlug(blog_dir[f]) THEN blog_dir[f].slug[2] ELSE slugify(f)

\* the posts of the last response; a post with no title in its front matter carries
\* the stem of its file name as its title
Posts == {resp.data[i] : i \in 1..Len(resp.data)}

\* C6: the loaded collection holds the documents that are no drafts and nothing else,
\* so /blog lists no draft, and /blog/<slug> answers 404 unless a document that is no
\* draft is served under that slug, and then with such a document.
C6_DraftsExcluded ==
    /\ req.endpoint = "blog" =>
          /\ Len(resp.data) = Cardinality(Published)
          /\ {post.title : post \in Posts} = {path_stem(f) : f \in Published}
    /\ req.endpoint = "blog_post" =>
          IF \E f \in Published : ServedSlug(f) = req.slug
          THEN /\ resp.status = 200
               /\ resp.data[1].slug = req.slug
               /\ resp.data[1].title \in {path_stem(f) : f \in {g \in Published : ServedSlug(g) = req.slug}}
          ELSE resp.status = 404 /\ resp.template = "404.html"

\* the slug of a draft looked up, with no other document under it: not found
C6_Witness ==
    /\ req.endpoint = "blog_post"
    /\ resp.status = 404
    /\ \E f \in DOMAIN blog_dir :
          /\ blog_dir[f].draft = Str(<<"n", "o">>)
          /\ ServedSlug(f) = req.slug
    /\ Published /= {}

\* the rule of the slug: the stem has 4 or more hyphen-delimited segments exactly when
\* it has 3 or more hyphens, and the slug is then what follows the third
RuleSlug(name) ==
    LET stem == path_stem(name)
        at == {i \in 1..Len(stem) : stem[i] = "-"}
    IN  IF Cardinality(at) >= 3
        THEN LET third == CHOOSE i \in at : Cardinality({j \in at : j < i}) = 2
             IN  SubSeq(stem, third + 1, Len(stem))
        ELSE stem

\* C8: a listed document with no metadata slug has the slug the rule derives from
\* the stem of its file name, and one with a metadata slug has that slug.
C8_SlugFromStem ==
    req.endpoint = "blog" =>
        \A f \in Published :
            \E post \in Posts :
                /\ post.title = path_stem(f)
                /\ post.slug = IF HasMetaSlug(blog_dir[f]) THEN blog_dir[f].slug[2] ELSE RuleSlug(f)

\* ---------------------------------------------------------------- the travel log's properties

\* the start_date of a raw stop as text: "" when it is missing
RawStart(st) == IF st.start_date = Absent THEN <<>> ELSE py_str(st.start_date)

ValidStart(stop) == strptime_ymd(stop.start_date)[1] = "ok"

StartKey(stop) == parse_date_ymd(Str(stop.start_date))

Perms(n) == {p \in [1..n -> 1..n] : \A i, j \in 1..n : p[i] = p[j] => i = j}

\* the output is the input in some order: none dropped, none duplicated
StopsKept ==
    /\ Len(resp.data) = Len(stops_json)
    /\ \E p \in Perms(Len(stops_json)) :
          \A i \in 1..Len(stops_json) : resp.data[i].start_date = RawStart(stops_json[p[i]])

StopsDescending ==
    \A i, j \in 1..Len(resp.data) : i < j => StartKey(resp.data[i]) >= StartKey(resp.data[j])

\* C7 as stated: as many records as the input, descending by parsed start_date, and
\* every stop with a missing or malformed start_date after every stop with a valid one.
C7_InvalidAfterEveryValid ==
    req.endpoint = "travel" =>
        /\ StopsKept
        /\ StopsDescending
        /\ \A i, j \in 1..Len(resp.data) :
              (~ValidStart(resp.data[i]) /\ ValidStart(resp.data[j])) => j < i

\* C7, amended: as many records as the input, descending by parsed start_date, and
\* every stop with a missing or malformed start_date after every stop with a valid
\* start_date later than 0001-01-01, the date such a stop is sorted as.
C7_InvalidAfterLaterValid ==
    req.endpoint = "travel" =>
        /\ StopsKept
        /\ StopsDescending
        /\ \A i, j \in 1..Len(resp.data) :
              (~ValidStart(resp.data[i]) /\ ValidStart(resp.data[j])
                  /\ StartKey(resp.data[j]) > DatetimeMin) => j < i

\* a malformed start_date ahead of a valid one in the file, behind it on the page
C7_Witness ==
    /\ req.endpoint = "travel"
    /\ Len(stops_json) = 2
    /\ stops_json[1].start_date = Str(D_bad)
    /\ stops_json[2].start_date = Str(D_2023_05_01)
    /\ resp.data[1].start_date = D_2023_05_01
    /\ resp.data[2].start_date = D_bad

\* the type of a raw stop: trimmed, "visited" when blank
RuleType(st) ==
    IF st.type \in {Absent, Null} \/ strip(st.type[2]) = <<>>
    THEN <<"v", "i", "s", "i", "t", "e", "d">>
    ELSE strip(st.type[2])

\* C9: every normalized stop has the trimmed raw type, "visited" when the raw type is
\* blank, and never the empty string.
C9_TypeDefaulted ==
    req.endpoint = "travel" =>
        /\ \A i \in 1..Len(resp.data) : resp.data[i].type /= <<>>
        /\ \E p \in Perms(Len(stops_json)) :
              \A i \in 1..Len(stops_json) :
                  /\ resp.data[i].start_date = RawStart(stops_json[p[i]])
                  /\ resp.data[i].type = RuleType(stops_json[p[i]])

====
